---- MODULE Spec2Model ----
(***************************************************************************)
(* Model of sync_notion_pages.py: the synchronisation driver main, the     *)
(* remote client (get_headers, get_existing_children, create_child_page)   *)
(* and the chunking utility split_rich_text.                               *)
(*                                                                         *)
(* The program is single-threaded.  One action is one straight-line piece  *)
(* of main between two loop heads; the remote API and the filesystem are   *)
(* the environment.  The filesystem, the credential and TASK_IDS are fixed *)
(* for a run and chosen in Init; the remote's status codes and bodies are  *)
(* chosen when a request is answered.                                      *)
(***************************************************************************)
EXTENDS Integers, Sequences, FiniteSets, TLC

VARIABLES
    \* ---- environment --------------------------------------------------
    hasCred,      \* NOTION_API_KEY or NOTION_KEY is set to a non-empty value
    TASK_IDS,     \* the static mapping task number -> page id (a function)
    files,        \* the set of <<task_num, filename>> that exist under /workspace
    remote,       \* remote[page_id]: the block children of that page, in order
    \* ---- locals of main -----------------------------------------------
    pc,           \* "loop" | "files" | "done" | "aborted"
    task_num,     \* the outer loop variable
    fileIdx,      \* position of the inner loop in Filenames (0 outside it)
    existing,     \* the set returned by get_existing_children for task_num
    created,
    skipped,
    errors,
    sample_urls,
    exitCode,     \* what main returned, -1 before it returns
    \* ---- observation of the run ---------------------------------------
    getCount,     \* getCount[t]: GET requests sent for container t in this run
    postCount,    \* postCount[<<t, f>>]: POST requests sent for the pair in this run
    touched,      \* pairs whose local file was tested or read in this run
    visited,      \* the task numbers taken up by the outer loop, in order
    resp,         \* the response to the POST of the step just taken, else NoResp
    entry,        \* created, skipped and len(errors) when the current container was listed
    run,          \* number of the current run of main
    firstCreated, \* pairs that run 1 counted as created
    listFailed,   \* a listing request of a run after the first was answered non-200
    \* ---- split_rich_text on its own -----------------------------------
    content,
    chunk_size,
    chunks,       \* the list split_rich_text returned
    splitPc,      \* "call" before split_rich_text is applied, "ret" after
    \* ---- get_existing_children on its own -----------------------------
    lBlocks,      \* the children of the page being listed
    lStatuses,    \* lStatuses[n]: the status code of the answer to the n-th GET
    lResult       \* [done, existing, requests]: the outcome of the call

envVars   == <<hasCred, TASK_IDS, files, remote>>
mainVars  == <<pc, task_num, fileIdx, existing, created, skipped, errors,
               sample_urls, exitCode>>
obsVars   == <<getCount, postCount, touched, visited, resp, entry, run,
               firstCreated, listFailed>>
splitVars == <<content, chunk_size, chunks, splitPc>>
listVars  == <<lBlocks, lStatuses, lResult>>
vars      == <<envVars, mainVars, obsVars, splitVars, listVars>>

(***************************************************************************)
(* Bounds of the model.                                                    *)
(***************************************************************************)
\* main iterates range(1, 21); the model iterates 1..NumTasks.
NumTasks == 2
\* get_existing_children asks for page_size 100; the model's remote serves
\* pages of PageSize blocks.
PageSize == 2
\* Longest block list drawn for a get_existing_children call on its own.
MaxBlocks == 3
\* Longest content and largest cap drawn for split_rich_text.
MaxLen == 4
MaxCap == 3
\* Number of successive runs of main in SpecTwice.
MaxRuns == 2

\* len(sample_urls) < 5
SampleCap == 5

Tasks     == 1..NumTasks
Filenames == <<"model_a.txt", "model_b.txt">>
Pairs     == Tasks \X {Filenames[i] : i \in 1..Len(Filenames)}

(***************************************************************************)
(* Python helpers.                                                         *)
(***************************************************************************)
EmptyDict == [k \in {} |-> ""]

\* d.get(k, default) for a dict d modelled as a function.
DictGet(d, k, default) == IF k \in DOMAIN d THEN d[k] ELSE default

\* Number of entries of sequence s equal to e.
RECURSIVE Count(_, _)
Count(s, e) ==
    IF s = <<>> THEN 0
    ELSE (IF Head(s) = e THEN 1 ELSE 0) + Count(Tail(s), e)

\* "".join(parts)
RECURSIVE Join(_)
Join(parts) == IF parts = <<>> THEN "" ELSE Head(parts) \o Join(Tail(parts))

Min(a, b) == IF a <= b THEN a ELSE b

\* Slice that loses the last character of every slice
SliceShort(s, a, b) == SubSeq(s, a + 1, Min(b - 1, Len(s)))

\* s[a:b] for 0 <= a, a sequence s
Slice(s, a, b) == SubSeq(s, a + 1, Min(b, Len(s)))

(***************************************************************************)
(* get_headers: the credential is read from the environment at every call. *)
(***************************************************************************)
get_headers(cred) == IF ~cred THEN "SystemExit" ELSE "headers"

(***************************************************************************)
(* split_rich_text.  A string is a sequence of characters; a chunk is the  *)
(* dict {"type": "text", "text": {"content": chunk}}.                      *)
(***************************************************************************)
RECURSIVE split_from(_, _, _)
\* the iterations of `for i in range(0, len(content), chunk_size)` from i on
split_from(c, size, i) ==
    IF i >= Len(c) THEN <<>>
    ELSE <<[type |-> "text", text |-> [content |-> Slice(c, i, i + size)]]>>
         \o split_from(c, size, i + size)

split_rich_text(c, size) == split_from(c, size, 0)

(***************************************************************************)
(* The remote.  A block is a dict with a "type"; a child page carries      *)
(* child_page.title.  A JSON value whose Python type the code tests is a   *)
(* one-entry function from the name of its type to the value.              *)
(***************************************************************************)
StrVal(s) == "str" :> s

ChildPage(title_val) == [type |-> "child_page", child_page |-> [title |-> title_val]]
Paragraph == [type |-> "paragraph"]

\* The answer of GET /blocks/{id}/children with status 200: the Notion API's
\* paginated list object (version 2022-06-28 of line 14), whose fields are
\* object, results, has_more and next_cursor.  A cursor is a position in the
\* block list; next_cursor is 0 (null) on the last page.
NotionList(blocks, params) ==
    LET start == DictGet(params, "start_cursor", 1)
        last  == Min(start + params.page_size - 1, Len(blocks))
        more  == last < Len(blocks)
    IN  [object      |-> "list",
         results     |-> SubSeq(blocks, start, last),
         has_more    |-> more,
         next_cursor |-> IF more THEN last + 1 ELSE 0]

\* lines 72-79: the title of a child_page block
TitleOf(block) ==
    LET title_val == DictGet(DictGet(block, "child_page", EmptyDict), "title", StrVal(""))
    IN  IF "str" \in DOMAIN title_val THEN title_val["str"]
        ELSE IF "list" \in DOMAIN title_val
             THEN Join([i \in 1..Len(title_val["list"]) |->
                           DictGet(title_val["list"][i], "plain_text", "")])
             ELSE ToString(title_val["num"])

\* lines 70-79: the titles one page of results adds
PageTitles(results) ==
    {TitleOf(results[i]) :
        i \in {j \in 1..Len(results) : DictGet(results[j], "type", "") = "child_page"}}

RECURSIVE list_loop(_, _, _, _, _)
\* The `while True` loop of get_existing_children from its n-th request on.
\* statuses[n] is the status code of the answer to the n-th request.
list_loop(blocks, statuses, ex, params, n) ==
    IF statuses[n] # 200
    THEN [existing |-> ex, requests |-> n]
    ELSE LET data == NotionList(blocks, params)
             ex2  == ex \cup PageTitles(DictGet(data, "results", <<>>))
         IN  \* `if not data.get("has_next"): break` -- None counts as false
             IF ~DictGet(data, "has_next", FALSE)
             THEN [existing |-> ex2, requests |-> n]
             ELSE list_loop(blocks, statuses, ex2,
                            [page_size |-> params.page_size]
                                @@ ("start_cursor" :> DictGet(data, "next_cursor", 0)),
                            n + 1)

get_existing_children(blocks, statuses) ==
    list_loop(blocks, statuses, {}, [page_size |-> PageSize], 1)

\* ---- POST /pages --------------------------------------------------------
\* A response: its status code, whether its body parses as JSON, the parsed
\* dict (r.json()) and the raw body (r.text).  A success answer carries a JSON
\* object: the page, or an object without content.
NotionPage == [object |-> "page", url |-> "https://www.notion.so/p"]

CreateResponses ==
    { [status |-> 200, isJson |-> TRUE,  json |-> NotionPage, text |-> "{page}"],
      [status |-> 201, isJson |-> TRUE,  json |-> NotionPage, text |-> "{page}"],
      [status |-> 200, isJson |-> TRUE,  json |-> EmptyDict,  text |-> "{}"],
      [status |-> 409, isJson |-> TRUE,
       json |-> [message |-> "conflict", code |-> "conflict_error"],
       text |-> "{error}"],
      [status |-> 502, isJson |-> FALSE, json |-> EmptyDict,  text |-> "Bad Gateway"] }

NoResp == [status |-> 0, isJson |-> FALSE, json |-> EmptyDict, text |-> ""]

PyNone     == [none |-> TRUE]
DictVal(d) == [dict |-> d]

\* Python truth value of None, a dict or a str
Truthy(v) ==
    IF "none" \in DOMAIN v THEN FALSE
    ELSE IF "dict" \in DOMAIN v THEN DOMAIN v["dict"] # {}
    ELSE v["str"] # ""

\* line 110
IsSuccess(status) == status \in {200, 201}

\* lines 112-117
ErrBody(r) ==
    IF r.isJson
    THEN DictGet(r.json, "message", DictGet(r.json, "code", r.text))
    ELSE r.text

\* lines 109-118: what create_child_page returns for the response r
create_child_page(r) ==
    IF IsSuccess(r.status)
    THEN [result |-> DictVal(r.json), err |-> PyNone]
    ELSE [result |-> PyNone,
          err    |-> StrVal(ToString(r.status) \o ": " \o ErrBody(r))]

\* The remote creates the page exactly when it answers with a success status;
\* a new child page is appended to its parent's children.
RemoteAfterPost(rem, parent_id, title, r) ==
    IF r.status \in {200, 201}
    THEN [rem EXCEPT ![parent_id] = Append(@, ChildPage(StrVal(title)))]
    ELSE rem

(***************************************************************************)
(* main                                                                    *)
(***************************************************************************)
TaskLabel(t)    == "TASK_" \o ToString(t)
PairLabel(t, f) == TaskLabel(t) \o "/" \o f

\* AlreadyExists that never finds the title
AlreadyExistsNever(name, ex) == FALSE

\* line 139
AlreadyExists(name, ex) == name \in ex

\* FileExists that never misses a file
FileExistsAlways(t, name) == TRUE

\* line 143
FileExists(t, name) == <<t, name>> \in files

\* ExitCodeOf that reports success whatever was recorded
ExitCodeAlwaysZero(errs) == 0

\* line 165
ExitCodeOf(errs) == IF errs = <<>> THEN 0 ELSE 1

\* the page id of task t in a mapping that has it
PageId(t) == "ID-" \o ToString(t)
AllPageIds == {PageId(t) : t \in Tasks}

filename == Filenames[fileIdx]
parent_id == DictGet(TASK_IDS, task_num, "")

\* The end of one iteration of `for filename in [...]`.
NextFile ==
    IF fileIdx < Len(Filenames)
    THEN /\ fileIdx' = fileIdx + 1
         /\ UNCHANGED <<pc, task_num>>
    ELSE /\ fileIdx' = 0
         /\ pc' = "loop"
         /\ task_num' = task_num + 1

\* NoPageId that leaves the loop (`break`) where the code goes on (`continue`)
NoPageIdBreaks ==
    /\ pc = "loop"
    /\ task_num <= NumTasks
    /\ parent_id = ""
    /\ errors' = Append(errors, TaskLabel(task_num) \o ": No page ID")
    /\ task_num' = NumTasks + 1
    /\ visited' = Append(visited, task_num)
    /\ resp' = NoResp
    /\ UNCHANGED <<envVars, pc, fileIdx, existing, created, skipped, sample_urls,
                   exitCode, getCount, postCount, touched, entry, run,
                   firstCreated, listFailed, splitVars, listVars>>

\* lines 129-132
NoPageId ==
    /\ pc = "loop"
    /\ task_num <= NumTasks
    /\ parent_id = ""
    /\ errors' = Append(errors, TaskLabel(task_num) \o ": No page ID")
    /\ task_num' = task_num + 1
    /\ visited' = Append(visited, task_num)
    /\ resp' = NoResp
    /\ UNCHANGED <<envVars, pc, fileIdx, existing, created, skipped, sample_urls,
                   exitCode, getCount, postCount, touched, entry, run,
                   firstCreated, listFailed, splitVars, listVars>>

\* lines 134-135 without a credential: get_headers raises SystemExit while the
\* arguments of requests.get are evaluated, so no request is sent.
ListAbort ==
    /\ pc = "loop"
    /\ task_num <= NumTasks
    /\ parent_id # ""
    /\ get_headers(hasCred) = "SystemExit"
    /\ pc' = "aborted"
    /\ visited' = Append(visited, task_num)
    /\ resp' = NoResp
    /\ UNCHANGED <<envVars, task_num, fileIdx, existing, created, skipped, errors,
                   sample_urls, exitCode, getCount, postCount, touched, entry,
                   run, firstCreated, listFailed, splitVars, listVars>>

\* lines 134-136 and the entry into the inner loop
ListChildren ==
    /\ pc = "loop"
    /\ task_num <= NumTasks
    /\ parent_id # ""
    /\ get_headers(hasCred) # "SystemExit"
    /\ \E st \in [1..(Len(remote[parent_id]) \div PageSize + 1) -> {200, 500}] :
         LET got == get_existing_children(remote[parent_id], st)
         IN  /\ existing' = got.existing
             /\ getCount' = [getCount EXCEPT ![task_num] = @ + got.requests]
             /\ listFailed' = (listFailed \/
                                (run > 1 /\ \E n \in 1..got.requests : st[n] # 200))
    /\ pc' = "files"
    /\ fileIdx' = 1
    /\ visited' = Append(visited, task_num)
    /\ entry' = [created |-> created, skipped |-> skipped, errors |-> Len(errors)]
    /\ resp' = NoResp
    /\ UNCHANGED <<envVars, task_num, created, skipped, errors, sample_urls,
                   exitCode, postCount, touched, run, firstCreated, splitVars,
                   listVars>>

\* Skip that counts the pair as created
SkipCountsCreated ==
    /\ pc = "files"
    /\ AlreadyExists(filename, existing)
    /\ created' = created + 1
    /\ NextFile
    /\ resp' = NoResp
    /\ UNCHANGED <<envVars, existing, skipped, errors, sample_urls, exitCode,
                   getCount, postCount, touched, visited, entry, run,
                   firstCreated, listFailed, splitVars, listVars>>

\* lines 139-141
Skip ==
    /\ pc = "files"
    /\ AlreadyExists(filename, existing)
    /\ skipped' = skipped + 1
    /\ NextFile
    /\ resp' = NoResp
    /\ UNCHANGED <<envVars, existing, created, errors, sample_urls, exitCode,
                   getCount, postCount, touched, visited, entry, run,
                   firstCreated, listFailed, splitVars, listVars>>

\* lines 142-145
FileNotFound ==
    /\ pc = "files"
    /\ ~AlreadyExists(filename, existing)
    /\ touched' = touched \cup {<<task_num, filename>>}
    /\ ~FileExists(task_num, filename)
    /\ errors' = Append(errors, PairLabel(task_num, filename) \o ": File not found")
    /\ NextFile
    /\ resp' = NoResp
    /\ UNCHANGED <<envVars, existing, created, skipped, sample_urls, exitCode,
                   getCount, postCount, visited, entry, run, firstCreated,
                   listFailed, splitVars, listVars>>

\* lines 146-155.  The credential cannot have gone since the listing of this
\* container, so get_headers returns here.  The payload (the title and one
\* code block holding split_rich_text(content)) is sent and never read back.
CreateChild ==
    /\ pc = "files"
    /\ ~AlreadyExists(filename, existing)
    /\ touched' = touched \cup {<<task_num, filename>>}
    /\ FileExists(task_num, filename)
    /\ get_headers(hasCred) # "SystemExit"
    /\ \E r \in CreateResponses :
         LET ret == create_child_page(r)
             url == DictGet(ret.result["dict"], "url", "")
         IN  /\ resp' = r
             /\ postCount' = [postCount EXCEPT ![<<task_num, filename>>] = @ + 1]
             /\ remote' = RemoteAfterPost(remote, parent_id, filename, r)
             /\ firstCreated' = IF run = 1 /\ Truthy(ret.result)
                                THEN firstCreated \cup {<<task_num, filename>>}
                                ELSE firstCreated
             /\ IF Truthy(ret.result)
                THEN /\ created' = created + 1
                     /\ sample_urls' = IF url # "" /\ Len(sample_urls) < SampleCap
                                       THEN Append(sample_urls, url)
                                       ELSE sample_urls
                     /\ errors' = errors
                ELSE /\ errors' = Append(errors,
                            PairLabel(task_num, filename) \o ": " \o
                            (IF Truthy(ret.err) THEN ret.err["str"] ELSE "Create failed"))
                     /\ UNCHANGED <<created, sample_urls>>
    /\ NextFile
    /\ UNCHANGED <<hasCred, TASK_IDS, files, existing, skipped, exitCode, getCount,
                   visited, entry, run, listFailed, splitVars, listVars>>

\* lines 157-165
Summary ==
    /\ pc = "loop"
    /\ task_num > NumTasks
    /\ exitCode' = ExitCodeOf(errors)
    /\ pc' = "done"
    /\ resp' = NoResp
    /\ UNCHANGED <<envVars, task_num, fileIdx, existing, created, skipped, errors,
                   sample_urls, getCount, postCount, touched, visited, entry, run,
                   firstCreated, listFailed, splitVars, listVars>>

\* lines 122-126: the locals of main, and a clean record of the run
StartOfMain ==
    /\ pc = "loop"
    /\ task_num = 1
    /\ fileIdx = 0
    /\ existing = {}
    /\ created = 0
    /\ skipped = 0
    /\ errors = <<>>
    /\ sample_urls = <<>>
    /\ exitCode = -1
    /\ getCount = [t \in Tasks |-> 0]
    /\ postCount = [p \in Pairs |-> 0]
    /\ touched = {}
    /\ visited = <<>>
    /\ entry = [created |-> 0, skipped |-> 0, errors |-> 0]
    /\ resp = NoResp

SplitIdle == content = <<>> /\ chunk_size = 1 /\ chunks = <<>> /\ splitPc = "ret"
ListIdle  == /\ lBlocks = <<>>
             /\ lStatuses = <<>>
             /\ lResult = [done |-> FALSE, existing |-> {}, requests |-> 0]

BlockA == ChildPage(StrVal(Filenames[1]))
BlockB == ChildPage(StrVal(Filenames[2]))
\* one full page of blocks that are not child pages
Filler == [i \in 1..PageSize |-> Paragraph]

Layouts     == {<<>>, <<BlockA, BlockB>>}
LayoutsDeep == Layouts \cup {Filler}

\* The environment of a run: any credential state, any mapping, any files, and
\* for each mapped container a page whose children are one of the layouts L.
InitEnv(L) ==
    /\ hasCred \in BOOLEAN
    /\ TASK_IDS \in {[t \in M |-> PageId(t)] : M \in SUBSET Tasks}
    /\ files \in SUBSET Pairs
    /\ remote \in [AllPageIds -> L]
    /\ \A t \in Tasks \ DOMAIN TASK_IDS : remote[PageId(t)] = <<>>

Init ==
    /\ InitEnv(Layouts)
    /\ StartOfMain
    /\ run = 1
    /\ firstCreated = {}
    /\ listFailed = FALSE
    /\ SplitIdle
    /\ ListIdle

Next ==
    \/ NoPageId
    \/ ListAbort
    \/ ListChildren
    \/ Skip
    \/ FileNotFound
    \/ CreateChild
    \/ Summary

Spec == Init /\ [][Next]_vars

(***************************************************************************)
(* Successive runs of main against the same remote and the same files.     *)
(***************************************************************************)
\* The process has ended (main returned, or SystemExit) and is started again.
Restart ==
    /\ pc \in {"done", "aborted"}
    /\ run < MaxRuns
    /\ run' = run + 1
    /\ pc' = "loop"
    /\ task_num' = 1
    /\ fileIdx' = 0
    /\ existing' = {}
    /\ created' = 0
    /\ skipped' = 0
    /\ errors' = <<>>
    /\ sample_urls' = <<>>
    /\ exitCode' = -1
    /\ getCount' = [t \in Tasks |-> 0]
    /\ postCount' = [p \in Pairs |-> 0]
    /\ touched' = {}
    /\ visited' = <<>>
    /\ entry' = [created |-> 0, skipped |-> 0, errors |-> 0]
    /\ resp' = NoResp
    /\ UNCHANGED <<envVars, firstCreated, listFailed, splitVars, listVars>>

InitTwice ==
    /\ InitEnv(LayoutsDeep)
    /\ StartOfMain
    /\ run = 1
    /\ firstCreated = {}
    /\ listFailed = FALSE
    /\ SplitIdle
    /\ ListIdle

NextTwice == Next \/ Restart

SpecTwice == InitTwice /\ [][NextTwice]_vars

(***************************************************************************)
(* split_rich_text applied to every content and cap within the bounds.     *)
(***************************************************************************)
Chars == {"a", "b"}
Contents == UNION {[1..n -> Chars] : n \in 0..MaxLen}

MainIdle ==
    /\ hasCred = TRUE
    /\ TASK_IDS = EmptyDict
    /\ files = {}
    /\ remote = [i \in AllPageIds |-> <<>>]
    /\ StartOfMain
    /\ run = 1
    /\ firstCreated = {}
    /\ listFailed = FALSE

InitSplit ==
    /\ content \in Contents
    /\ chunk_size \in 1..MaxCap
    /\ chunks = <<>>
    /\ splitPc = "call"
    /\ MainIdle
    /\ ListIdle

CallSplit ==
    /\ splitPc = "call"
    /\ splitPc' = "ret"
    /\ chunks' = split_rich_text(content, chunk_size)
    /\ UNCHANGED <<content, chunk_size, envVars, mainVars, obsVars, listVars>>

NextSplit == CallSplit

SpecSplit == InitSplit /\ [][NextSplit]_vars

(***************************************************************************)
(* get_existing_children applied to every block list and every sequence of *)
(* answers within the bounds.                                              *)
(***************************************************************************)
\* A child page whose title is a list of rich-text fragments, and one whose
\* title is neither a string nor a list.
BlockFrag == ChildPage("list" :> <<[plain_text |-> "model_b"], [plain_text |-> ".txt"]>>)
BlockNum  == ChildPage("num" :> 7)

BlockKinds == {BlockA, BlockFrag, BlockNum, Paragraph}
BlockLists == UNION {[1..n -> BlockKinds] : n \in 0..MaxBlocks}

InitList ==
    /\ lBlocks \in BlockLists
    /\ lStatuses \in [1..(MaxBlocks + 1) -> {200, 500}]
    /\ lResult = [done |-> FALSE, existing |-> {}, requests |-> 0]
    /\ MainIdle
    /\ SplitIdle

CallList ==
    /\ ~lResult.done
    /\ get_headers(hasCred) # "SystemExit"
    /\ LET got == get_existing_children(lBlocks, lStatuses)
       IN  lResult' = [done |-> TRUE, existing |-> got.existing,
                       requests |-> got.requests]
    /\ UNCHANGED <<lBlocks, lStatuses, envVars, mainVars, obsVars, splitVars>>

NextList == CallList

SpecList == InitList /\ [][NextList]_vars

(***************************************************************************)
(* Properties                                                              *)
(***************************************************************************)
Names == {Filenames[i] : i \in 1..Len(Filenames)}
Mapped == DOMAIN TASK_IDS
Unmapped == Tasks \ DOMAIN TASK_IDS

NoIdError(t)       == TaskLabel(t) \o ": No page ID"
NotFoundError(t, f) == PairLabel(t, f) \o ": File not found"
StatusError(t, f, r) ==
    PairLabel(t, f) \o ": " \o ToString(r.status) \o ": " \o ErrBody(r)

\* every error string main can record for the pair <<t, f>>
PairErrors(t, f) ==
    {NotFoundError(t, f), PairLabel(t, f) \o ": Create failed"}
        \cup {StatusError(t, f, r) : r \in CreateResponses}

\* the same strings, tabulated: <<t, f, e>> for every error e of the pair <<t, f>>,
\* and <<t, e>> for the "No page ID" error e of task t
PairErrorTable ==
    UNION {{<<p[1], p[2], e>> : e \in PairErrors(p[1], p[2])} : p \in Pairs}
NoIdErrorTable == {<<t, NoIdError(t)>> : t \in Tasks}

\* number of entries of errors that belong to the pair <<t, f>>
PairErrorCount(t, f) ==
    Cardinality({i \in 1..Len(errors) : <<t, f, errors[i]>> \in PairErrorTable})

\* main stands at the loop head right after the inner loop of the mapped
\* container t: existing and entry are those of t.
JustFinished(t) ==
    /\ pc = "loop"
    /\ task_num = t + 1
    /\ t \in Mapped

\* C1: in one run the create-child request of a pair is sent at most once, and
\* only while its container is being processed and its filename is absent
\* from the title set get_existing_children returned for that container.
C1_CreateAtMostOnceOnlyIfAbsent ==
    [][\A p \in Pairs :
          postCount'[p] # postCount[p] =>
              /\ postCount[p] = 0
              /\ postCount'[p] = 1
              /\ pc = "files"
              /\ p[1] = task_num
              /\ p[2] \notin existing]_vars

C1_Witness ==
    \E p \in Pairs : postCount[p] = 1 /\ p[2] \notin existing /\ p[1] = task_num

\* C2: without a credential the run aborts before any container is processed:
\* no error is recorded, no counter changes, no request is sent, and main
\* never reaches the summary.
C2_MissingCredentialAbortsFirst ==
    ~hasCred =>
        /\ errors = <<>>
        /\ created = 0
        /\ skipped = 0
        /\ \A t \in Tasks : getCount[t] = 0
        /\ \A p \in Pairs : postCount[p] = 0
        /\ pc # "done"

\* C3 as claimed: a container missing both expected files locally gets exactly
\* two "File not found" errors and no create-child request, whatever its
\* listing returns.
C3_TwoNotFoundWhateverListing ==
    \A t \in Tasks :
        (JustFinished(t) /\ \A f \in Names : <<t, f>> \notin files) =>
            /\ Count(errors, NotFoundError(t, Filenames[1]))
                 + Count(errors, NotFoundError(t, Filenames[2])) = 2
            /\ \A f \in Names : postCount[<<t, f>>] = 0

\* C3 as amended: a mapped container missing both expected files locally gets
\* one "File not found" error for each expected filename that is absent from
\* the title set returned for it (two when neither is listed), nothing else,
\* and no create-child request.
C3_NotFoundPerUnlistedTitle ==
    \A t \in Tasks :
        (JustFinished(t) /\ \A f \in Names : <<t, f>> \notin files) =>
            /\ \A f \in Names :
                 /\ Count(errors, NotFoundError(t, f)) = (IF f \in existing THEN 0 ELSE 1)
                 /\ postCount[<<t, f>>] = 0
            /\ Len(errors) = entry.errors + Cardinality(Names \ existing)
            /\ created = entry.created

C3_Witness ==
    \E t \in Tasks :
        /\ JustFinished(t)
        /\ \A f \in Names : <<t, f>> \notin files
        /\ existing \cap Names = {}
        /\ Len(errors) = entry.errors + 2

C5_SecondRunSkipsCreated ==
    (run = 2 /\ ~listFailed) =>
        \A p \in firstCreated : postCount[p] = 0 /\ p \notin touched

\* C6: main returns only after the full pass, and returns 0 if and only if the
\* error list is then empty and 1 otherwise; an error once recorded stays
\* recorded, so any error of the run forces exit code 1.
C6_ExitCodeIffNoErrors ==
    /\ [](/\ pc # "done" => exitCode = -1
          /\ pc = "done" =>
               /\ task_num = NumTasks + 1
               /\ exitCode \in {0, 1}
               /\ exitCode = 0 <=> errors = <<>>)
    /\ [][/\ Len(errors') >= Len(errors)
          /\ SubSeq(errors', 1, Len(errors)) = errors]_vars

C6_Witness ==
    pc = "done" /\ exitCode = 1 /\ errors # <<>> /\ created > 0

RECURSIVE Rejoin(_)
\* the contents of the chunks, concatenated in order
Rejoin(cs) == IF cs = <<>> THEN <<>> ELSE Head(cs).text.content \o Rejoin(Tail(cs))

\* C7: for every content and cap >= 1, the segments concatenate in order to
\* the input, every segment has between 1 and cap characters, and the empty
\* input yields no segment.
C7_SplitRoundTrip ==
    splitPc = "ret" =>
        /\ Rejoin(chunks) = content
        /\ \A i \in 1..Len(chunks) :
             /\ chunks[i].type = "text"
             /\ Len(chunks[i].text.content) >= 1
             /\ Len(chunks[i].text.content) <= chunk_size
        /\ content = <<>> => chunks = <<>>

C7_Witness ==
    /\ splitPc = "ret"
    /\ Len(chunks) >= 2
    /\ Len(content) % chunk_size # 0

\* the number of pages of a block list (an empty list has one empty page)
NumPages(blocks) ==
    IF Len(blocks) = 0 THEN 1 ELSE (Len(blocks) + PageSize - 1) \div PageSize

\* how many pages are received before the first non-success answer
PagesReceived(blocks, statuses) ==
    LET bad == {n \in 1..NumPages(blocks) : statuses[n] # 200}
    IN  IF bad = {} THEN NumPages(blocks)
        ELSE (CHOOSE n \in bad : \A m \in bad : n <= m) - 1

\* C8: get_existing_children returns exactly the titles of the child-page
\* entries of all pages received before the first non-success answer -- of
\* all pages of the container when every answer succeeds.
C8_ListsAllPagesBeforeFailure ==
    lResult.done =>
        lResult.existing =
            PageTitles(SubSeq(lBlocks, 1,
                Min(Len(lBlocks), PagesReceived(lBlocks, lStatuses) * PageSize)))

\* C9: a POST answered 200 or 201, whatever its body, adds one to created and
\* records no error; any other status leaves created and skipped unchanged
\* and appends exactly the error "TASK_n/filename: <status>: <message>".
C9_SuccessStatusCountsCreated ==
    [][resp'.status # 0 =>
          IF resp'.status \in {200, 201}
          THEN created' = created + 1 /\ errors' = errors
          ELSE /\ created' = created
               /\ skipped' = skipped
               /\ errors' = Append(errors, StatusError(task_num, filename, resp'))]_vars

====
